---- MODULE Spec2Model ----
(***************************************************************************)
(* Model of orchard-rss: the ingest handler (lambda/process_data.py), the  *)
(* feed handler (lambda/generate_rss.py) and the table they share          *)
(* (orchard_rss/orchard_rss_stack.py).                                     *)
(*                                                                         *)
(* Strings are sequences of one-character tokens.  Python's None, a JSON   *)
(* null, a JSON number and a missing dictionary key are one-element        *)
(* sequences holding a marker token that is not a character.               *)
(***************************************************************************)
EXTENDS Integers, Sequences, FiniteSets, TLC

VARIABLES store, inv, now, putLog, nbuilt, fin, fout, fpc

vars == <<store, inv, now, putLog, nbuilt, fin, fout, fpc>>

(* ------------------------------ bounds -------------------------------- *)
MaxPre == 2
MaxPost == 2
MaxRun == 11
MaxTorrents == 3
MaxSeeds == 2
MaxRows == 53
MaxText == 2
MaxInv == 2
MaxClock == 1
ScanPage == 52

(* ------------------------------ values -------------------------------- *)
None == <<"None">>
Absent == <<"Absent">>
JNull == <<"null">>
JNum == <<"num">>
NL == "NL"
Digit == "1"

Min(a, b) == IF a < b THEN a ELSE b

SeqsUpTo(S, n) == UNION {[1..k -> S] : k \in 0..n}

RECURSIVE Repeat(_, _)
Repeat(c, n) == IF n = 0 THEN <<>> ELSE <<c>> \o Repeat(c, n - 1)

IsStr(v) == v \notin {None, Absent, JNull, JNum}

\* Python truthiness of a JSON value: None and "" are false
Truthy(v) == v \notin {None, JNull, <<>>}

(* ------------------- process_data.extract_imdb_id --------------------- *)
MinDigits == 7
MaxDigits == 10

\* number of consecutive digits of s starting at position p
RECURSIVE DigitRun(_, _)
DigitRun(s, p) ==
    IF p > Len(s) \/ s[p] # Digit THEN 0 ELSE 1 + DigitRun(s, p + 1)

\* r'tt\d{7,10}' matched at position p: the length of the greedy match, 0 if none
MatchAt(s, p) ==
    IF p + 1 <= Len(s) /\ s[p] = "t" /\ s[p + 1] = "t"
       /\ DigitRun(s, p + 2) >= MinDigits
    THEN 2 + Min(DigitRun(s, p + 2), MaxDigits)
    ELSE 0

\* re.match(r'^tt\d{7,10}$', s): '$' matches at the end of the string and
\* also just before a newline that ends the string
AnchoredMatch(s) ==
    \E k \in MinDigits..MaxDigits :
        /\ MatchAt(s, 1) >= 2 + k
        /\ \/ Len(s) = 2 + k
           \/ Len(s) = 3 + k /\ s[3 + k] = NL

\* re.search(r'tt\d{7,10}', s): the leftmost match, None if there is none
Search(s) ==
    LET hits == {p \in 1..Len(s) : MatchAt(s, p) > 0}
    IN  IF hits = {} THEN None
        ELSE LET p == CHOOSE q \in hits : \A r \in hits : q <= r
             IN  SubSeq(s, p, p + MatchAt(s, p) - 1)

extract_imdb_id(url_or_id) ==
    IF AnchoredMatch(url_or_id) THEN url_or_id ELSE Search(url_or_id)

(* ------------------------- handler responses -------------------------- *)
\* a response: its status code, the keys of its JSON body and its message;
\* Raised is an exception that left the handler
Resp(status, keys, msg) == [status |-> status, keys |-> keys, msg |-> msg]
NoResp == Resp(-1, {}, "")
Raised == Resp(0, {}, "exception")
ConfigError == Resp(500, {"error"}, "Server configuration error")
Caught(msg) == Resp(500, {"error", "message"}, msg)
MissingInput == Resp(400, {"error"}, "Missing IMDB URL or ID.")
InvalidFormat == Resp(400, {"error", "provided"}, "Invalid IMDB format")
MovieNotFound == Resp(404, {"message", "imdb_id"}, "Movie not found on YTS")
NoVariant == Resp(404, {"message", "movie"}, "No 1080p version available")
Added == Resp(200, {"message", "item_id"}, "Movie added successfully to RSS feed")

(* ------------------ process_data.handler: the request ----------------- *)
\* json.loads(event['body']) if isinstance(event.get('body'), str) else event
ParseBody(event) ==
    CASE event.kind = "wrapped" -> [exc |-> FALSE, val |-> event.body]
      [] event.kind = "direct" -> [exc |-> FALSE, val |-> event.body]
      [] event.kind = "bad_json" -> [exc |-> TRUE, val |-> event.body]
      [] event.kind = "body_not_dict" -> [exc |-> TRUE, val |-> event.body]
      [] event.kind = "not_dict" -> [exc |-> TRUE, val |-> event.body]

\* body.get('imdb', body.get('url', body.get('query', '')))
ImdbInput(body) ==
    IF body.imdb # Absent THEN body.imdb
    ELSE IF body.url # Absent THEN body.url
    ELSE IF body.query # Absent THEN body.query
    ELSE <<>>

\* lines 67-101: the response, or the identifier to search for
IngestBegin(table_name, event) ==
    IF ~table_name
    THEN [next |-> "done", resp |-> ConfigError, imdb_id |-> None, failed |-> TRUE]
    ELSE LET b == ParseBody(event) IN
         IF b.exc
         THEN [next |-> "done", resp |-> Caught("Failed to process request"),
               imdb_id |-> None, failed |-> TRUE]
         ELSE LET imdb_input == ImdbInput(b.val) IN
              IF ~Truthy(imdb_input)
              THEN [next |-> "done", resp |-> MissingInput, imdb_id |-> None,
                    failed |-> FALSE]
              ELSE IF ~IsStr(imdb_input)
              THEN [next |-> "done", resp |-> Caught("Failed to process request"),
                    imdb_id |-> None, failed |-> TRUE]
              ELSE LET imdb_id == extract_imdb_id(imdb_input) IN
                   IF imdb_id = None
                   THEN [next |-> "done", resp |-> InvalidFormat,
                         imdb_id |-> None, failed |-> FALSE]
                   ELSE [next |-> "search", resp |-> NoResp,
                         imdb_id |-> imdb_id, failed |-> FALSE]

(* ----------------- process_data.search_yts_by_imdb -------------------- *)
\* a loop that takes the first movie whatever its code
RECURSIVE MatchLoopAny(_, _, _)
MatchLoopAny(movies, k, imdb_id) ==
    IF k > Len(movies) THEN [exc |-> FALSE, val |-> <<>>]
    ELSE IF ~movies[k].dict THEN [exc |-> TRUE, val |-> <<>>]
    ELSE [exc |-> FALSE, val |-> <<movies[k]>>]

\* for movie in movies: if movie.get('imdb_code') == imdb_id: return [movie]
\* (a list element that is not an object has no get)
RECURSIVE MatchLoop(_, _, _)
MatchLoop(movies, k, imdb_id) ==
    IF k > Len(movies) THEN [exc |-> FALSE, val |-> <<>>]
    ELSE IF ~movies[k].dict THEN [exc |-> TRUE, val |-> <<>>]
    ELSE IF movies[k].imdb_code = imdb_id THEN [exc |-> FALSE, val |-> <<movies[k]>>]
    ELSE MatchLoop(movies, k + 1, imdb_id)

\* the body of the try block: an exception, or the list it returns
SearchTry(response, imdb_id) ==
    CASE response.shape \in {"network_error", "undecodable", "not_json"} ->
            [exc |-> TRUE, val |-> <<>>]
      [] response.shape \in {"json_list", "data_not_dict", "count_not_number",
                             "movies_missing"} ->
            [exc |-> TRUE, val |-> <<>>]
      [] response.shape \in {"status_error", "count_zero"} ->
            [exc |-> FALSE, val |-> <<>>]
      [] response.shape = "ok" -> MatchLoop(response.movies, 1, imdb_id)

\* the search without its except clause
SearchUnguarded(response, imdb_id) == SearchTry(response, imdb_id)

\* except Exception: return []
search_yts_by_imdb(response, imdb_id) ==
    LET r == SearchTry(response, imdb_id)
    IN  IF r.exc THEN [exc |-> FALSE, val |-> <<>>] ELSE r

(* --------------- process_data.handler: variant and item --------------- *)
TargetQuality == "1080p"
Category == <<"M", "/", "1080p">>
TitleSuffix == <<" ", "[", "1080p", "]">>

Num(n) == [k |-> "int", n |-> n]
SeedsAbsent == [k |-> "absent", n |-> 0]
SeedsNull == [k |-> "null", n |-> 0]

\* t.get('seeds', 0)
SeedsOf(t) == IF t.seeds = SeedsAbsent THEN Num(0) ELSE t.seeds

\* movie.get('torrents', [])
Torrents(movie) == IF movie.has_torrents THEN movie.torrents ELSE <<>>

\* [t for t in torrents if t.get('quality') == '1080p']
Filter1080(torrents) == SelectSeq(torrents, LAMBDA t : t.quality = TargetQuality)

\* a maximum that also moves to a later element with an equal key
BetterOrEqual(a, b) == a.n >= b.n

\* max() replaces its candidate only by an element with a greater key
Better(a, b) == a.n > b.n

RECURSIVE MaxLoop(_, _, _)
MaxLoop(ts, k, best) ==
    IF k > Len(ts) THEN best
    ELSE MaxLoop(ts, k + 1,
                 IF Better(SeedsOf(ts[k]), SeedsOf(ts[best])) THEN k ELSE best)

\* max(torrents_1080p, key=lambda t: t.get('seeds', 0)); comparing a None
\* key raises TypeError
BestTorrent(ts) ==
    IF Len(ts) > 1 /\ \E k \in 1..Len(ts) : SeedsOf(ts[k]) = SeedsNull
    THEN [exc |-> TRUE, val |-> ts[1]]
    ELSE [exc |-> FALSE, val |-> ts[MaxLoop(ts, 2, 1)]]

\* a timestamp that runs against the clock
TimestampBackwards(clock) == 0 - clock

\* int(datetime.now().timestamp())
Timestamp(clock) == clock

\* f"{imdb_id}-1080p-{uuid.uuid4().hex[:8]}"
ItemId(imdb_id, fragment) == imdb_id \o <<"-1080p-", fragment>>

NoItem ==
    [id |-> <<>>, timestamp |-> 0 - 1, title |-> <<>>, link |-> None,
     guid |-> None, category |-> <<>>, seeds |-> Num(0)]

\* lines 131-159: the item written to the table
BuildItem(imdb_id, movie, best, fragment, clock) ==
    [id |-> ItemId(imdb_id, fragment),
     timestamp |-> Timestamp(clock),
     title |-> movie.title \o TitleSuffix,
     link |-> best.url,
     guid |-> best.hash,
     category |-> Category,
     seeds |-> SeedsOf(best)]

\* lines 104-161 after the catalog answered: a response, or the item to put
IngestSelect(imdb_id, response, fragment, clock) ==
    LET movies == search_yts_by_imdb(response, imdb_id) IN
    IF movies.exc
    THEN [next |-> "done", resp |-> Caught("Failed to process request"),
          failed |-> TRUE, item |-> NoItem]
    ELSE IF movies.val = <<>>
    THEN [next |-> "done", resp |-> MovieNotFound, failed |-> FALSE, item |-> NoItem]
    ELSE LET movie == movies.val[1]
             torrents_1080p == Filter1080(Torrents(movie))
         IN  IF torrents_1080p = <<>>
             THEN [next |-> "done", resp |-> NoVariant, failed |-> FALSE,
                   item |-> NoItem]
             ELSE LET best == BestTorrent(torrents_1080p) IN
                  IF best.exc \/ movie.rating = "null"
                  THEN [next |-> "done",
                        resp |-> Caught("Failed to process request"),
                        failed |-> TRUE, item |-> NoItem]
                  ELSE [next |-> "put", resp |-> NoResp, failed |-> FALSE,
                        item |-> BuildItem(imdb_id, movie, best.val, fragment,
                                           clock)]

(* ------------------------------ the table ----------------------------- *)
\* partition key id, sort key timestamp
Key(item) == <<item.id, item.timestamp>>

\* a put into a table keyed by id alone
PutItemById(table, item) == {e \in table : e.id # item.id} \cup {item}

\* table.put_item(Item=item): replaces the item that has the same key
PutItem(table, item) == {e \in table : Key(e) # Key(item)} \cup {item}

(* ------------------------ generate_rss.handler ------------------------ *)
FeedLimit == 50
CR == "CR"
CTL == "CTL"
IND == "IND"
Blank == {" ", IND}

\* table.scan() answers with one page: every item when they fit in it, else
\* the first ScanPage of them in the table's own order
Scan(rows) == SubSeq(rows, 1, Min(Len(rows), ScanPage))

\* x.get('timestamp', 0)
SortKey(item) == item.timestamp

\* list.sort(key=..., reverse=True) keeps equal keys in their input order:
\* insertion of x after every element whose key is not smaller
RECURSIVE InsertDesc(_, _)
InsertDesc(sorted, x) ==
    IF sorted = <<>> THEN <<x>>
    ELSE IF SortKey(sorted[Len(sorted)]) >= SortKey(x) THEN Append(sorted, x)
    ELSE Append(InsertDesc(SubSeq(sorted, 1, Len(sorted) - 1), x),
                sorted[Len(sorted)])

RECURSIVE SortDesc(_, _, _)
SortDesc(items, k, acc) ==
    IF k > Len(items) THEN acc
    ELSE SortDesc(items, k + 1, InsertDesc(acc, items[k]))

\* items[:50]
Recent(items) == SubSeq(items, 1, Min(Len(items), FeedLimit))

\* element text written without escaping
XmlCharRaw(c) == <<c>>

\* one character of element text as the document shows it: ElementTree
\* escapes, the parser decodes and turns a carriage return into a newline,
\* the pretty printer escapes again
XmlChar(c) ==
    CASE c = "&" -> <<"&", "a", "m", "p", ";">>
      [] c = "<" -> <<"&", "l", "t", ";">>
      [] c = ">" -> <<"&", "g", "t", ";">>
      [] c = "\"" -> <<"&", "q", "u", "o", "t", ";">>
      [] c = CR -> <<NL>>
      [] OTHER -> <<c>>

RECURSIVE XmlText(_)
XmlText(text) ==
    IF text = <<>> THEN <<>> ELSE XmlChar(Head(text)) \o XmlText(Tail(text))

\* an element holding text; None and "" give an empty element
TextElement(tag, text) ==
    IF text \in {None, JNull, <<>>} THEN <<IND, "<" \o tag \o "/>">>
    ELSE <<IND, "<" \o tag \o ">">> \o XmlText(text) \o <<"</" \o tag \o ">">>

\* lines 56-96: the lines of one <item>
ItemLines(item) ==
    <<  <<IND, "<item>">>,
        TextElement("title", item.title),
        <<IND, "<description>", "</description>">>,
        TextElement("link", item.link),
        TextElement("guid", item.guid),
        TextElement("category", item.category) >>
    \o (IF item.timestamp # 0
        THEN << <<IND, "<pubDate>", ToString(item.timestamp), "</pubDate>">> >>
        ELSE <<>>)
    \o (IF item.seeds \notin {Num(0), SeedsNull}
        THEN << <<IND, "<seeds>", ToString(item.seeds.n), "</seeds>">> >>
        ELSE <<>>)
    \o (IF Truthy(item.guid)
        THEN << TextElement("infoHash", item.guid) >>
        ELSE <<>>)
    \o << <<IND, "</item>">> >>

\* xml_string.split('\n') on one printed line, keeping the pieces with
\* something other than white space: [line for line in ... if line.strip()]
RECURSIVE SplitKeep(_, _)
SplitKeep(rest, cur) ==
    LET keep == IF \E k \in 1..Len(cur) : cur[k] \notin Blank
                THEN <<cur>> ELSE <<>>
    IN  IF rest = <<>> THEN keep
        ELSE IF Head(rest) = NL THEN keep \o SplitKeep(Tail(rest), <<>>)
        ELSE SplitKeep(Tail(rest), Append(cur, Head(rest)))

RECURSIVE CleanLines(_, _)
CleanLines(lines, k) ==
    IF k > Len(lines) THEN <<>>
    ELSE SplitKeep(lines[k], <<>>) \o CleanLines(lines, k + 1)

\* '\n'.join(xml_lines)
RECURSIVE Join(_, _)
Join(lines, k) ==
    IF k > Len(lines) THEN <<>>
    ELSE IF k = Len(lines) THEN lines[k]
    ELSE lines[k] \o <<NL>> \o Join(lines, k + 1)

\* the printed, cleaned and joined lines of one block of the document
Printed(lines) == Join(CleanLines(lines, 1), 1)

RECURSIVE ItemsDoc(_, _)
ItemsDoc(items, k) ==
    IF k > Len(items) THEN <<>>
    ELSE <<NL>> \o Printed(ItemLines(items[k])) \o ItemsDoc(items, k + 1)

\* minidom.parseString rejects a character that XML does not allow
Unparsable(item) ==
    \E f \in {item.title, item.link, item.guid, item.category} :
        \E k \in 1..Len(f) : f[k] = CTL

\* lines 29-129 once the scan answered: the response and its document
RenderFeed(scanned) ==
    LET items == Recent(SortDesc(scanned, 1, <<>>))
        top == << <<"<?xml?>">>, <<"<rss>">>, <<IND, "<channel>">>,
                  <<IND, "<title>", "</title>">>,
                  <<IND, "<lastBuildDate>", "</lastBuildDate>">> >>
        bottom == << <<IND, "</channel>">>, <<"</rss>">> >>
    IN  IF \E k \in 1..Len(items) : Unparsable(items[k])
        THEN [resp |-> Caught("Failed to generate RSS feed"), doc |-> <<>>]
        ELSE [resp |-> Resp(200, {"xml"}, "rss"),
              doc |-> Printed(top) \o ItemsDoc(items, 1) \o <<NL>>
                      \o Printed(bottom)]

\* lines 14-27: TABLE_NAME is read with os.environ[...], and the Host header
\* with event.get('headers', {}).get(...), both before the try block
FeedBegin(table_name, headers) ==
    IF ~table_name \/ headers = "null"
    THEN [next |-> "done", resp |-> Raised, failed |-> TRUE]
    ELSE [next |-> "scan", resp |-> NoResp, failed |-> FALSE]

(* --------------------- the handlers as processes ---------------------- *)
IdA == <<"t", "t">> \o Repeat(Digit, MinDigits)
IdB == <<"t", "t">> \o Repeat(Digit, MinDigits + 1)
UrlB == <<"/">> \o IdB \o <<"/">>
Junk == <<"/", "t">>

Fragments == {"f1", "f2"}

Invocations == 1..MaxInv

EventsOver(vals) ==
    [kind : {"wrapped", "direct"}, body : [imdb : vals, url : vals, query : vals]]
    \cup [kind : {"bad_json", "body_not_dict", "not_dict"},
          body : [imdb : {Absent}, url : {Absent}, query : {Absent}]]

MainEvents ==
    [kind : {"wrapped", "direct"},
     body : [imdb : {Absent, <<>>, IdA}, url : {Absent, UrlB}, query : {Absent, Junk}]]
    \cup [kind : {"bad_json", "body_not_dict", "not_dict"},
          body : [imdb : {Absent}, url : {Absent}, query : {Absent}]]

Torrent(quality, seeds, url, hash) ==
    [quality |-> quality, seeds |-> seeds, url |-> url, hash |-> hash]

TA == Torrent("1080p", Num(1), <<"a">>, <<"h">>)
TB == Torrent("1080p", Num(1), <<"b">>, None)
TNull == Torrent("1080p", SeedsNull, <<"a">>, <<"h">>)
T720 == Torrent("720p", Num(1), <<"a">>, <<"h">>)

NotAMovie ==
    [dict |-> FALSE, imdb_code |-> <<>>, title |-> <<>>, rating |-> "num",
     has_torrents |-> FALSE, torrents |-> <<>>]

MoviesOver(codes, titles, lists) ==
    [dict : {TRUE}, imdb_code : codes, title : titles, rating : {"num", "null"},
     has_torrents : {TRUE}, torrents : lists]
    \cup [dict : {TRUE}, imdb_code : codes, title : titles, rating : {"num"},
          has_torrents : {FALSE}, torrents : {<<>>}]
    \cup {NotAMovie}

MainMovies ==
    MoviesOver({IdA}, {<<"a">>}, {<<T720>>, <<TA, TB>>, <<TB, TA>>, <<TNull, TA>>})

FailShapes ==
    {"network_error", "undecodable", "not_json", "json_list", "status_error",
     "data_not_dict", "count_zero", "count_not_number", "movies_missing"}

ResponsesOver(movies, n) ==
    [shape : FailShapes, movies : {<<>>}]
    \cup [shape : {"ok"}, movies : UNION {[1..k -> movies] : k \in 1..n}]

MainResponses == ResponsesOver(MainMovies, 1)

\* how the search ended: an exception caught in the function, a catalog
\* that reports nothing, no movie with the requested code, or a match
Outcome(response, imdb_id) ==
    IF SearchTry(response, imdb_id).exc THEN "exception"
    ELSE IF response.shape # "ok" THEN "nothing"
    ELSE IF \E k \in 1..Len(response.movies) :
               response.movies[k].dict /\ response.movies[k].imdb_code = imdb_id
         THEN "match" ELSE "no_match"

Idle ==
    [kind |-> "none", pc |-> "idle", imdb_id |-> None, item |-> NoItem,
     resp |-> NoResp, failed |-> FALSE, ncat |-> 0, nops |-> 0,
     cat |-> "", rseq |-> 0, doc |-> <<>>]

Orderings(S) ==
    {f \in [1..Cardinality(S) -> S] : \A a, b \in 1..Cardinality(S) :
        f[a] = f[b] => a = b}

Init ==
    /\ store = {}
    /\ inv = [i \in Invocations |-> Idle]
    /\ now = 0
    /\ putLog = <<>>
    /\ nbuilt = 0
    /\ fin = <<>>
    /\ fout = <<>>
    /\ fpc = "main"

FunUnchanged == UNCHANGED <<fin, fout, fpc>>

\* invocations are numbered in the order in which they start
Starts(i) == inv[i].pc = "idle" /\ \A j \in 1..(i - 1) : inv[j].pc # "idle"

IngestStart(i) ==
    /\ Starts(i)
    /\ \E table_name \in BOOLEAN, event \in MainEvents :
          LET r == IngestBegin(table_name, event)
          IN  inv' = [inv EXCEPT ![i] =
                         [@ EXCEPT !.kind = "ingest", !.pc = r.next,
                                   !.resp = r.resp, !.imdb_id = r.imdb_id,
                                   !.failed = r.failed]]
    /\ UNCHANGED <<store, now, putLog, nbuilt>>
    /\ FunUnchanged

IngestSearch(i) ==
    /\ inv[i].pc = "search"
    /\ \E response \in MainResponses, fragment \in Fragments :
          LET r == IngestSelect(inv[i].imdb_id, response, fragment, now)
              built == r.next = "put"
          IN  /\ inv' = [inv EXCEPT ![i] =
                            [@ EXCEPT !.pc = r.next, !.resp = r.resp,
                                      !.failed = r.failed, !.item = r.item,
                                      !.ncat = @ + 1,
                                      !.cat = Outcome(response, inv[i].imdb_id),
                                      !.rseq = IF built THEN nbuilt + 1 ELSE 0]]
              /\ nbuilt' = IF built THEN nbuilt + 1 ELSE nbuilt
    /\ UNCHANGED <<store, now, putLog>>
    /\ FunUnchanged

IngestPut(i) ==
    /\ inv[i].pc = "put"
    /\ \E ok \in BOOLEAN :
          IF ok
          THEN /\ store' = PutItem(store, inv[i].item)
               /\ putLog' = Append(putLog, [timestamp |-> inv[i].item.timestamp,
                                            rseq |-> inv[i].rseq])
               /\ inv' = [inv EXCEPT ![i] =
                             [@ EXCEPT !.pc = "done", !.resp = Added,
                                       !.nops = @ + 1]]
          ELSE /\ UNCHANGED <<store, putLog>>
               /\ inv' = [inv EXCEPT ![i] =
                             [@ EXCEPT !.pc = "done", !.failed = TRUE,
                                       !.resp = Caught("Failed to process request"),
                                       !.item = NoItem, !.nops = @ + 1]]
    /\ UNCHANGED <<now, nbuilt>>
    /\ FunUnchanged

FeedStart(i) ==
    /\ Starts(i)
    /\ \E table_name \in BOOLEAN, headers \in {"dict", "absent", "null"} :
          LET r == FeedBegin(table_name, headers)
          IN  inv' = [inv EXCEPT ![i] =
                         [@ EXCEPT !.kind = "feed", !.pc = r.next,
                                   !.resp = r.resp, !.failed = r.failed]]
    /\ UNCHANGED <<store, now, putLog, nbuilt>>
    /\ FunUnchanged

FeedScan(i) ==
    /\ inv[i].pc = "scan"
    /\ \E ok \in BOOLEAN, rows \in Orderings(store) :
          IF ok
          THEN LET r == RenderFeed(Scan(rows))
               IN  inv' = [inv EXCEPT ![i] =
                              [@ EXCEPT !.pc = "done", !.resp = r.resp,
                                        !.doc = r.doc, !.nops = @ + 1,
                                        !.failed = r.resp.status # 200]]
          ELSE inv' = [inv EXCEPT ![i] =
                          [@ EXCEPT !.pc = "done", !.failed = TRUE,
                                    !.resp = Caught("Failed to generate RSS feed"),
                                    !.nops = @ + 1]]
    /\ UNCHANGED <<store, now, putLog, nbuilt>>
    /\ FunUnchanged

\* the wall clock advances between the steps of the invocations
Tick ==
    /\ now < MaxClock
    /\ now' = now + 1
    /\ UNCHANGED <<store, inv, putLog, nbuilt>>
    /\ FunUnchanged

Next ==
    \/ \E i \in Invocations : IngestStart(i)
    \/ \E i \in Invocations : IngestSearch(i)
    \/ \E i \in Invocations : IngestPut(i)
    \/ \E i \in Invocations : FeedStart(i)
    \/ \E i \in Invocations : FeedScan(i)
    \/ Tick

Spec == Init /\ [][Next]_vars

(* ----------------- extraction as a function of its input -------------- *)
ExtractAlphabet == {"t", Digit, "/", NL}

ExtractInputs ==
    {pre \o <<"t", "t">> \o Repeat(Digit, k) \o post :
        pre \in SeqsUpTo(ExtractAlphabet, MaxPre),
        k \in 0..MaxRun,
        post \in SeqsUpTo(ExtractAlphabet, MaxPost)}

MainIdle ==
    /\ store = {}
    /\ inv = <<>>
    /\ now = 0
    /\ putLog = <<>>
    /\ nbuilt = 0

MainUnchanged == UNCHANGED <<store, inv, now, putLog, nbuilt>>

InitExtract ==
    /\ MainIdle
    /\ fin \in ExtractInputs
    /\ fout = None
    /\ fpc = "call"

ExtractStep ==
    /\ fpc = "call"
    /\ fout' = extract_imdb_id(fin)
    /\ fpc' = "done"
    /\ UNCHANGED fin
    /\ MainUnchanged

NextExtract == ExtractStep

SpecExtract == InitExtract /\ [][NextExtract]_vars

\* a string that is exactly 'tt' and 7 to 10 digits
IsImdbId(s) ==
    /\ Len(s) \in (2 + MinDigits)..(2 + MaxDigits)
    /\ s[1] = "t" /\ s[2] = "t"
    /\ \A p \in 3..Len(s) : s[p] = Digit

\* the substrings of s that are identifiers, by start position
IdStarts(s) ==
    {p \in 1..Len(s) : \E n \in (2 + MinDigits)..(2 + MaxDigits) :
        p + n - 1 <= Len(s) /\ IsImdbId(SubSeq(s, p, p + n - 1))}

\* C2: the result is s itself when s is an identifier, else the leftmost
\* identifier substring of s, and None exactly when s has no identifier
\* substring; every result other than None is itself an identifier.
C2_ExtractExact ==
    fpc = "done" =>
        /\ IsImdbId(fin) => fout = fin
        /\ IdStarts(fin) = {} <=> fout = None
        /\ fout # None =>
              /\ IsImdbId(fout)
              /\ \E p \in IdStarts(fin) :
                    /\ \A q \in IdStarts(fin) : p <= q
                    /\ SubSeq(fin, p, p + Len(fout) - 1) = fout

(* ------------- the request check as a function of the event ----------- *)
InputEvents == EventsOver({Absent, JNull, JNum, <<>>, IdA, UrlB, Junk})

InitInput ==
    /\ MainIdle
    /\ fin \in [table_name : BOOLEAN, event : InputEvents]
    /\ fout = <<>>
    /\ fpc = "input"

InputStep ==
    /\ fpc = "input"
    /\ fout' = IngestBegin(fin.table_name, fin.event)
    /\ fpc' = "input_done"
    /\ UNCHANGED fin
    /\ MainUnchanged

NextInput == InputStep

SpecInput == InitInput /\ [][NextInput]_vars

(* --------------- variant selection as a function of the list ---------- *)
SeedValues == {SeedsAbsent, SeedsNull} \cup {Num(n) : n \in 0..MaxSeeds}

\* the variants of one movie; the url of a variant is its position in the list
TorrentLists ==
    UNION {{[k \in 1..n |-> Torrent(q[k], sd[k], <<ToString(k)>>, <<"h">>)] :
               q \in [1..n -> {"1080p", "720p"}], sd \in [1..n -> SeedValues]} :
           n \in 0..MaxTorrents}

MovieWith(title, torrents) ==
    [dict |-> TRUE, imdb_code |-> IdA, title |-> title, rating |-> "num",
     has_torrents |-> TRUE, torrents |-> torrents]

Found(movie) == [shape |-> "ok", movies |-> <<movie>>]

InitSelect ==
    /\ MainIdle
    /\ fin \in TorrentLists
    /\ fout = <<>>
    /\ fpc = "select"

SelectStep ==
    /\ fpc = "select"
    /\ fout' = IngestSelect(IdA, Found(MovieWith(<<"a">>, fin)), "f1", 1)
    /\ fpc' = "select_done"
    /\ UNCHANGED fin
    /\ MainUnchanged

NextSelect == SelectStep

SpecSelect == InitSelect /\ [][NextSelect]_vars

(* ---------------- the feed as a function of the table ----------------- *)
Patterns == {"rising", "falling", "equal", "mixed"}

\* the timestamp of the k-th of n rows in the table's scan order
StampOf(pattern, k, n) ==
    CASE pattern = "rising" -> k
      [] pattern = "falling" -> n + 1 - k
      [] pattern = "equal" -> 7
      [] pattern = "mixed" -> 1 + ((k * 3) % 5)

Row(k, stamp) ==
    [id |-> ItemId(IdA, ToString(k)), timestamp |-> stamp,
     title |-> <<"a">> \o TitleSuffix, link |-> <<"a">>, guid |-> <<"h">>,
     category |-> Category, seeds |-> Num(1)]

Tables ==
    {[k \in 1..n |-> Row(k, StampOf(pattern, k, n))] :
        n \in 0..MaxRows, pattern \in Patterns}

InitRender ==
    /\ MainIdle
    /\ fin \in Tables
    /\ fout = <<>>
    /\ fpc = "render"

RenderStep ==
    /\ fpc = "render"
    /\ fout' = RenderFeed(Scan(fin))
    /\ fpc' = "render_done"
    /\ UNCHANGED fin
    /\ MainUnchanged

NextRender == RenderStep

SpecRender == InitRender /\ [][NextRender]_vars

(* ------------------ an entry built, stored and rendered --------------- *)
TextAlphabet == {"a", "&", "<", ">", "\"", " ", NL, CR, CTL}
Texts == SeqsUpTo(TextAlphabet, MaxText)
Probes == {<<"a">>, <<"&", "a">>, None}

\* the movie title, the url and the hash of its only variant
Sources ==
    [title : Texts, url : Probes, hash : Probes]
    \cup [title : Probes \ {None}, url : Texts, hash : Probes]
    \cup [title : Probes \ {None}, url : Probes, hash : Texts]

InitRoundTrip ==
    /\ MainIdle
    /\ fin \in Sources
    /\ fout = <<>>
    /\ fpc = "build"

BuildStep ==
    /\ fpc = "build"
    /\ fout' = IngestSelect(IdA,
                   Found(MovieWith(fin.title,
                             <<Torrent("1080p", Num(1), fin.url, fin.hash)>>)),
                   "f1", 1)
    /\ fpc' = "built"
    /\ UNCHANGED fin
    /\ MainUnchanged

PutScanRenderStep ==
    /\ fpc = "built"
    /\ fout.next = "put"
    /\ \E rows \in Orderings(PutItem({}, fout.item)) :
          fout' = [item |-> fout.item] @@ RenderFeed(Scan(rows))
    /\ fpc' = "rendered"
    /\ UNCHANGED fin
    /\ MainUnchanged

NextRoundTrip == BuildStep \/ PutScanRenderStep

SpecRoundTrip == InitRoundTrip /\ [][NextRoundTrip]_vars

(* ============================== claims ================================ *)
Done(i) == inv[i].pc = "done"
Succeeded == {i \in Invocations : Done(i) /\ inv[i].resp = Added}

\* C1: whatever fails inside a handler, the response is a 500 whose body has
\* the keys error and message, and no exception leaves the handler.
C1_FailureIsJson500 ==
    \A i \in Invocations :
        Done(i) /\ inv[i].failed =>
            inv[i].resp.status = 500 /\ inv[i].resp.keys = {"error", "message"}

HoldsInput(v) == IsStr(v) /\ v # <<>>
TextOrMissing(v) == IsStr(v) \/ v = Absent

\* C3: a request whose fields imdb, url, query are text or missing is
\* answered 400 "Missing IMDB URL or ID." exactly when none of them holds
\* input, whatever the fields of higher precedence hold.
C3_MissingIffNoInput ==
    /\ fpc = "input_done" /\ fin.table_name
    /\ fin.event.kind \in {"wrapped", "direct"}
    /\ \A v \in {fin.event.body.imdb, fin.event.body.url, fin.event.body.query} :
          TextOrMissing(v)
    =>
        (fout.resp = MissingInput <=>
            /\ ~HoldsInput(fin.event.body.imdb)
            /\ ~HoldsInput(fin.event.body.url)
            /\ ~HoldsInput(fin.event.body.query))

\* C4: when the catalog call fails, answers something unusable or has no
\* movie with the requested code, the search raises nothing, the request is
\* answered 404 "Movie not found on YTS" and performs no storage operation.
C4_SearchDegradesToNotFound ==
    \A i \in Invocations :
        inv[i].ncat = 1 /\ inv[i].cat # "match" =>
            /\ Done(i)
            /\ inv[i].resp = MovieNotFound
            /\ ~inv[i].failed
            /\ inv[i].nops = 0

C4_Witness ==
    \E i, j \in Invocations :
        /\ inv[i].cat = "exception" /\ inv[i].resp = MovieNotFound
        /\ inv[j].cat = "no_match" /\ inv[j].resp = MovieNotFound
        /\ store = {}

SeedCount(t) == IF t.seeds.k = "int" THEN t.seeds.n ELSE 0
Is1080(t) == t.quality = "1080p"

\* C5: when the movie has a 1080p variant, the entry is built from a 1080p
\* variant whose seed count (0 when it has none) is greatest among the 1080p
\* variants, and from the first such variant of the list.
C5_FirstMaxSeeds ==
    fpc = "select_done" =>
        LET wide == {k \in 1..Len(fin) : Is1080(fin[k])}
            nulls == \E k \in wide : fin[k].seeds = SeedsNull
        IN  /\ wide # {} /\ ~(nulls /\ Cardinality(wide) > 1) => fout.next = "put"
            /\ fout.next = "put" =>
                  \E k \in wide :
                      /\ fout.item.link = fin[k].url
                      /\ \A j \in wide : SeedCount(fin[j]) <= SeedCount(fin[k])
                      /\ \A j \in wide : j < k => SeedCount(fin[j]) < SeedCount(fin[k])

C5_Witness ==
    /\ fpc = "select_done"
    /\ Len(fin) = 3
    /\ \A k \in 1..3 : Is1080(fin[k])
    /\ SeedCount(fin[1]) < SeedCount(fin[2])
    /\ SeedCount(fin[2]) = SeedCount(fin[3])
    /\ fout.next = "put"
    /\ fout.item.link = fin[2].url

MaxStamp == MaxRows + 7
StampValue(token) == CHOOSE t \in 0..MaxStamp : ToString(t) = token
DatesAt(doc) == {p \in 1..Len(doc) : doc[p] = "<pubDate>"}

\* C6: a feed rendered from a table of n entries has min(n, 50) items, they
\* are the entries with the greatest timestamps, and they are in
\* non-increasing order of timestamp.
C6_NewestFifty ==
    fpc = "render_done" /\ fout.resp.status = 200 =>
        LET doc == fout.doc
            n == Len(fin)
        IN  /\ Cardinality({p \in 1..Len(doc) : doc[p] = "<item>"}) = Min(n, FeedLimit)
            /\ \A p, q \in DatesAt(doc) :
                  p < q => StampValue(doc[p + 1]) >= StampValue(doc[q + 1])
            /\ \A t \in 0..MaxStamp :
                  Cardinality({p \in DatesAt(doc) : StampValue(doc[p + 1]) > t})
                  = Min(FeedLimit, Cardinality({k \in 1..n : fin[k].timestamp > t}))

\* C7: every request answered 200 added an entry of its own and no put
\* replaced or changed an earlier entry: the table has as many entries as
\* there are 200 answers, and an entry once stored stays as it is.
C7_OneEntryPerSuccess ==
    /\ [](Cardinality(store) = Cardinality(Succeeded))
    /\ [][\A e \in store : e \in store']_vars

\* C7 (amended): every request answered 200 left an entry under its own key
\* (id, timestamp); the table has as many entries as those requests have
\* distinct keys; an entry changes only when a put with its key replaces it.
C7_OneEntryPerKey ==
    /\ [](/\ Cardinality(store) = Cardinality({Key(inv[i].item) : i \in Succeeded})
          /\ \A i \in Succeeded : \E e \in store : Key(e) = Key(inv[i].item))
    /\ [][\A e \in store :
             \/ e \in store'
             \/ \E i \in Invocations :
                   /\ inv[i].pc = "put" /\ inv'[i].resp = Added
                   /\ Key(inv[i].item) = Key(e)
                   /\ inv[i].item \in store']_vars

C7_Witness ==
    \E i, j \in Invocations :
        /\ i # j
        /\ i \in Succeeded /\ j \in Succeeded
        /\ Key(inv[i].item) = Key(inv[j].item)
        /\ inv[i].item # inv[j].item
        /\ Cardinality(store) = 1

Contains(doc, v) ==
    \E p \in 1..(Len(doc) - Len(v) + 1) : SubSeq(doc, p, p + Len(v) - 1) = v

Entities ==
    [c \in {"&", "<", ">", "\""} |->
        IF c = "&" THEN <<"&", "a", "m", "p", ";">>
        ELSE IF c = "<" THEN <<"&", "l", "t", ";">>
        ELSE IF c = ">" THEN <<"&", "g", "t", ";">>
        ELSE <<"&", "q", "u", "o", "t", ";">>]

RECURSIVE Escaped(_)
Escaped(v) ==
    IF v = <<>> THEN <<>>
    ELSE (IF Head(v) \in DOMAIN Entities THEN Entities[Head(v)] ELSE <<Head(v)>>)
         \o Escaped(Tail(v))

\* no carriage return, and no line inside v made of white space only
Plain(v) ==
    /\ \A p \in 1..Len(v) : v[p] # CR
    /\ ~\E p, q \in 1..Len(v) :
          /\ p < q /\ v[p] = NL /\ v[q] = NL
          /\ \A r \in (p + 1)..(q - 1) : v[r] = " "

Fields(item) == {item.title, item.link, item.guid, item.category}

C9_PutOrderMonotone ==
    \A a, b \in DOMAIN putLog :
        a < b => putLog[a].timestamp <= putLog[b].timestamp

\* C9 (amended): timestamps are non-decreasing in the order in which the
\* requests read the clock to build their entries, whatever the order of
\* the puts.
C9_BuildOrderMonotone ==
    \A a, b \in DOMAIN putLog :
        putLog[a].rseq < putLog[b].rseq =>
            putLog[a].timestamp <= putLog[b].timestamp

C9_Witness ==
    /\ Len(putLog) = 2
    /\ putLog[1].rseq > putLog[2].rseq
    /\ putLog[1].timestamp > putLog[2].timestamp

\* C10: an invocation makes at most one catalog call and one storage
\* operation; a request answered 400 makes neither, one answered 404 makes no
\* storage operation, a feed request makes no catalog call; the table changes
\* only by the put of a request whose identifier was extracted and whose
\* movie was found.
C10_OneCallOnePut ==
    /\ [](\A i \in Invocations :
            /\ inv[i].ncat <= 1 /\ inv[i].nops <= 1
            /\ inv[i].resp.status = 400 => inv[i].ncat = 0 /\ inv[i].nops = 0
            /\ inv[i].resp.status = 404 => inv[i].nops = 0
            /\ inv[i].kind = "feed" => inv[i].ncat = 0)
    /\ [][store' # store =>
             \E i \in Invocations :
                /\ inv[i].kind = "ingest" /\ inv[i].pc = "put"
                /\ inv[i].imdb_id # None /\ inv[i].cat = "match"
                /\ inv[i].nops = 0 /\ inv'[i].nops = 1
                /\ inv'[i].resp = Added
                /\ store' = PutItem(store, inv[i].item)
                /\ \A j \in Invocations \ {i} : inv'[j] = inv[j]]_vars

C10_Witness ==
    /\ \E i \in Invocations : inv[i].resp = InvalidFormat
    /\ \E i \in Invocations : inv[i].resp = Added /\ inv[i].imdb_id = IdA
    /\ Cardinality(store) = 1
====
